---- MODULE Spec2Model ----
(***************************************************************************)
(* Scheduling layer of f5-tts-service:                                     *)
(*   - AsyncWorkerManager (src/async_worker_manager.py): dispatcher,       *)
(*     four priority lanes, worker loops, retry handler;                   *)
(*   - GPUWorkerPool (src/gpu_worker_pool.py) with GPUConfig               *)
(*     (src/gpu_config.py): adaptive concurrency controller and the        *)
(*     semaphore gate;                                                     *)
(*   - GPUHealthMonitor (src/gpu_monitor.py): the health score.            *)
(* Fractions of the source are integers here: memory usage, utilization    *)
(* and thresholds in percent (0.9 -> 90), the error rate in permille       *)
(* (0.01 -> 10).                                                           *)
(* Each service is modelled from the point where its loops run: the        *)
(* connection and the creation of its consumer group (_connect_redis,      *)
(* _setup_consumer_groups) are taken as done.                              *)
(***************************************************************************)
EXTENDS Integers, Sequences, FiniteSets, TLC

VARIABLES
    \* ---- AsyncWorkerManager
    read_count,        \* messages of the input stream delivered to consumer 'dispatcher'
    task,              \* the WorkerTask objects, by message
    priority_queues,   \* self.priority_queues: lane -> FIFO of tasks
    worker,            \* per worker loop: where it is and the task it holds
    gpu_available,     \* self.gpu_worker_pool is set (pool was running at initialize)
    out_stream,        \* result messages on the output stream, per task and status
    acks,              \* XACK calls on the input stream, per message
    attempts,          \* history: synthesis attempts started, per task
    synth_ok,          \* history: some attempt's synthesis produced audio
    global_stats,      \* self.global_stats counters
    msg_kind,          \* history: what the payload of each read message was
    poll,              \* the dispatcher's last iteration: what xreadgroup did, what
                       \* _get_tasks_from_redis handed to the loop, the sleep that followed
    \* ---- GPUWorkerPool
    cfg,               \* the configuration the pool was constructed from
    pool_running,      \* self.running
    current_concurrent,
    semaphore,         \* self.semaphore: which semaphore object is the current one
    gates,             \* the asyncio.Semaphore objects alive: their _value
    gpu_worker,        \* per pool worker: where it is and the semaphore it entered
    worker_tasks,      \* number of worker loops started by _start_workers
    gpu_stream,        \* unread messages on the pool's request stream
    gpu_stats,         \* self.stats counters
    last_gpu_metrics,  \* memory_usage_percent of self._last_gpu_metrics
    old_concurrent,    \* old_concurrent of the last _adapt_concurrency call
    scenario_pos,      \* history: how far the samples fed so far follow Scenario
    \* ---- GPUHealthMonitor
    hs_in,             \* the arguments of the last _calculate_health_score call
    hs_score,          \* its result
    \* ---- _should_use_gpu, both copies
    elig_in,           \* the inputs of the last evaluation
    elig_out,          \* what each copy returned (empty before the call)
    \* ---- GPUIntegrationService, with the pool as it sees it
    pool_stream_name,  \* GPUWorkerPool.stream_name (config.gpu_stream, GPU_STREAM)
    input_read,        \* messages of the input stream _input_worker has processed
    task_cache,        \* self.task_cache: the task ids with a correlation entry
    streams,           \* unread messages of the GPU request and result streams
    submitted,         \* submit_task calls made on the pool by other clients
    pool_done,         \* history: the pool finished the task, and how
    router_out,        \* results the router published on the output stream, per task
    router_acks,       \* XACKs of the router on the input stream, per message
    \* ---- GPUHealthMonitor's history
    health_history_size,
    health_history,    \* self.health_history
    arrivals,          \* history: every sample _add_to_history was given, in order
    \* ---- TTSWorker (worker.py)
    tts_worker,        \* the worker: where its loop is, the message in hand, counters
    tts_requests,      \* the messages of 'tts_requests' as group 'tts_workers' sees them
    \* ---- the broker, read by the dispatcher and by the router's input worker
    group_cursor,      \* per stream and consumer group: messages delivered so far
    readers,           \* per input message: the consumers it was delivered to
    handled,           \* per input message: the consumers that are done with it
    output_results,    \* per output stream and input message: results published
    \* ---- one GPU-routed task of AsyncWorkerManager and its jobs in the pool
    gpu_task,          \* the WorkerTask: where it is, the gpu_task_id waited for, retry_count
    gpu_jobs           \* per gpu_task_id submitted for it: the job's state in the pool

awmVars == <<read_count, task, priority_queues, worker, gpu_available,
             out_stream, acks, attempts, synth_ok, global_stats, msg_kind,
             poll>>
poolVars == <<cfg, pool_running, current_concurrent, semaphore, gates, gpu_worker,
              worker_tasks, gpu_stream, gpu_stats, last_gpu_metrics,
              old_concurrent, scenario_pos>>
scoreVars == <<hs_in, hs_score>>
eligVars == <<elig_in, elig_out>>
routerVars == <<pool_stream_name, input_read, task_cache, streams, submitted,
                pool_done, router_out, router_acks>>
histVars == <<health_history_size, health_history, arrivals>>
ttsVars == <<tts_worker, tts_requests>>
brokerVars == <<group_cursor, readers, handled, output_results>>
jobVars == <<gpu_task, gpu_jobs>>
vars == <<awmVars, poolVars, scoreVars, eligVars, routerVars, histVars, ttsVars, brokerVars, jobVars>>
\* What the steps of one component leave alone.
notAWM == <<poolVars, scoreVars, eligVars, routerVars, histVars, ttsVars, brokerVars, jobVars>>
notPool == <<awmVars, scoreVars, eligVars, routerVars, histVars, ttsVars, brokerVars, jobVars>>
notScore == <<awmVars, poolVars, eligVars, routerVars, histVars, ttsVars, brokerVars, jobVars>>
notElig == <<awmVars, poolVars, scoreVars, routerVars, histVars, ttsVars, brokerVars, jobVars>>
notRouter == <<awmVars, poolVars, scoreVars, eligVars, histVars, ttsVars, brokerVars, jobVars>>
notHist == <<awmVars, poolVars, scoreVars, eligVars, routerVars, ttsVars, brokerVars, jobVars>>
notTTS == <<awmVars, poolVars, scoreVars, eligVars, routerVars, histVars, brokerVars, jobVars>>
notBroker == <<awmVars, poolVars, scoreVars, eligVars, routerVars, histVars, ttsVars, jobVars>>
notJob == <<awmVars, poolVars, scoreVars, eligVars, routerVars, histVars, ttsVars, brokerVars>>

\* Python's None where the other values are numbers.
None == 0 - 1

Min(a, b) == IF a < b THEN a ELSE b
Max(a, b) == IF a > b THEN a ELSE b

(***************************************************************************)
(* AsyncWorkerManager                                                      *)
(***************************************************************************)
\* Bounds of the model.
NumTasks == 2
NumWorkers == 2

\* class TaskPriority
LOW == 1
NORMAL == 2
HIGH == 3
CRITICAL == 4
\* WorkerTask.max_retries
max_retries == 3
\* count=10 of xreadgroup in _read_redis_stream
ReadCount == 10
\* len(text) < 50 and memory_usage_percent > 0.95 in _should_use_gpu
MinGpuTextLen == 50
GpuMemoryLimit == 95

Tasks == 1..NumTasks
Workers == 1..NumWorkers
TaskPriority == {LOW, NORMAL, HIGH, CRITICAL}

\* What a message's payload may carry: a priority (-1: a value outside 1..4),
\* a text length, and what get_gpu_metrics() returns while it is parsed.
PayloadPriorities == {-1, LOW, NORMAL, HIGH, CRITICAL}
TextLens == {10, 60}
GpuMemReadings == {None, 50, 96}
\* The payload of a message: "task", a JSON object json.loads and the
\* WorkerTask constructor accept; "no_data", a message without a 'data' field;
\* "bad_json", a 'data' field on which json.loads, .get or float() raises.
MessageKinds == {"task", "no_data", "bad_json"}
\* The payloads told apart: priority and text length matter for a "task" only
\* (the other kinds have no field the dispatcher gets to read).
Payloads ==
    {m \in [kind : MessageKinds, priority : PayloadPriorities, text_len : TextLens] :
        m.kind = "task" \/ (m.priority = NORMAL /\ m.text_len = 10)}

\* The sleep that ends an iteration of _task_dispatcher_loop, in tenths of a
\* second: poll_interval (its except branch, with sleep(1), is entered only
\* when _get_tasks_from_redis or a put raises).
PollInterval == 1
NotPolled == [read |-> "none", returned |-> "none", slept |-> 0]
\* What the loop has in hand after _get_tasks_from_redis returned `tasks`.
Returned(tasks) == IF tasks = <<>> THEN "empty_list" ELSE "tasks"

NoTask == [priority |-> NORMAL, use_gpu |-> FALSE, retry_count |-> 0]
Idle == [pc |-> "idle", task |-> 0]

\* priority = TaskPriority(v) if v in [1, 2, 3, 4] else TaskPriority.NORMAL
ParsePriority(v) == IF v \in {1, 2, 3, 4} THEN v ELSE NORMAL

\* _should_use_gpu refusing at the memory limit itself.
ShouldUseGpuAtLimit(pool, mem, prio, len) ==
    IF ~pool THEN FALSE
    ELSE IF mem # None /\ mem >= GpuMemoryLimit THEN FALSE
    ELSE IF prio < 0 THEN FALSE
    ELSE IF len < MinGpuTextLen THEN FALSE
    ELSE TRUE

\* AsyncWorkerManager._should_use_gpu
ShouldUseGpu(pool, mem, prio, len) ==
    IF ~pool THEN FALSE
    ELSE IF mem # None /\ mem > GpuMemoryLimit THEN FALSE
    ELSE IF prio < 0 THEN FALSE
    ELSE IF len < MinGpuTextLen THEN FALSE
    ELSE TRUE

\* The lanes in the reverse of the order _get_next_task scans them.
NextPriorityAscending(q) ==
    IF q[LOW] # <<>> THEN LOW
    ELSE IF q[NORMAL] # <<>> THEN NORMAL
    ELSE IF q[HIGH] # <<>> THEN HIGH
    ELSE IF q[CRITICAL] # <<>> THEN CRITICAL
    ELSE 0

\* _get_next_task: the first lane of [CRITICAL, HIGH, NORMAL, LOW] whose
\* get_nowait() does not raise QueueEmpty; 0 when it returns None.
NextPriority(q) ==
    IF q[CRITICAL] # <<>> THEN CRITICAL
    ELSE IF q[HIGH] # <<>> THEN HIGH
    ELSE IF q[NORMAL] # <<>> THEN NORMAL
    ELSE IF q[LOW] # <<>> THEN LOW
    ELSE 0

\* get_nowait() on lane p with the result thrown away, the task left in place.
QueueGetKeep(q, p) == q

\* asyncio.Queue.get_nowait() on lane p: the oldest task leaves the lane.
QueueGet(q, p) == [q EXCEPT ![p] = Tail(@)]

\* put() that places the task at the head of lane p.
QueuePutFront(q, p, t) == [q EXCEPT ![p] = <<t>> \o @]

\* asyncio.Queue.put(task) on lane p: the task goes behind the waiting ones.
QueuePut(q, p, t) == [q EXCEPT ![p] = Append(@, t)]

\* What the synthesis path hands back to _process_task.
\*   GPU (_process_gpu_task): result.get('result_path'), a path, or None when
\*     the pool's job failed or the bounded wait timed out;
\*   CPU (_process_cpu_task): None when the engine is not ready, otherwise the
\*     dict synthesize_speech_async returns, with 'success': True or with
\*     'success': False;
\*   on either path a call may raise instead of returning ("raised").
Outcomes(t) ==
    IF task[t].use_gpu /\ gpu_available
    THEN {"path", "none", "raised"}
    ELSE {"dict_ok", "dict_failed", "none", "raised"}

\* Synthesis paths without their `except Exception`: the exception goes on.
Unguarded(outcome) == outcome

\* The `try ... except Exception: ... return None` around the body of
\* _process_gpu_task and of _process_cpu_task: what _process_task receives.
Guarded(outcome) == IF outcome = "raised" THEN "none" ELSE outcome

\* `if result_path:`
Truthy(outcome) == outcome # "none"
\* the collaborator produced audio
Synthesized(outcome) == outcome \in {"path", "dict_ok"}

\* redis-py encodes every field value of XADD; a value that is not bytes, str,
\* int or float (the CPU path's dict) raises DataError.
Encodable(result_path) == result_path \in {"path", "none"}

\* _send_result: xadd of the result message; an exception of xadd is logged
\* and swallowed.
SendResult(out, t, result_path) ==
    LET status == IF Truthy(result_path) THEN "completed" ELSE "failed"
    IN  IF Encodable(result_path)
        THEN [out EXCEPT ![t][status] = @ + 1]
        ELSE out

\* _handle_task_error: `if task.retry_count < task.max_retries` (after the
\* increment).
ShouldRetry(rc) == rc < max_retries

InitAWM ==
    /\ read_count = 0
    /\ task = [t \in Tasks |-> NoTask]
    /\ priority_queues = [p \in TaskPriority |-> <<>>]
    /\ worker = [w \in Workers |-> Idle]
    /\ gpu_available \in BOOLEAN
    /\ out_stream = [t \in Tasks |-> [completed |-> 0, failed |-> 0]]
    /\ acks = [t \in Tasks |-> 0]
    /\ attempts = [t \in Tasks |-> 0]
    /\ synth_ok = [t \in Tasks |-> FALSE]
    /\ global_stats = [total_tasks |-> 0, completed_tasks |-> 0, failed_tasks |-> 0]
    /\ msg_kind = [t \in Tasks |-> "unread"]
    /\ poll = NotPolled

\* What json.loads(fields.get('data', '{}')) and the task_data.get calls give
\* for a payload: a message without 'data' parses as {} and takes every default.
TaskData(m) ==
    IF m.kind = "no_data" THEN [priority |-> NORMAL, text_len |-> 0]
    ELSE [priority |-> m.priority, text_len |-> m.text_len]

\* One iteration of _task_dispatcher_loop: _get_tasks_from_redis reads the next
\* k messages; a message whose parsing raises is acknowledged and skipped, each
\* other one becomes a WorkerTask, and the loop puts each task into the lane of
\* its priority.
DispatcherPoll ==
    \E k \in 1..Min(ReadCount, NumTasks - read_count) :
    \E mem \in GpuMemReadings :
    \E payload \in [(read_count + 1)..(read_count + k) -> Payloads] :
        LET batch == [i \in 1..k |-> read_count + i]
            raised == {t \in DOMAIN payload : payload[t].kind = "bad_json"}
            parsed == [t \in DOMAIN payload |->
                         [priority |-> ParsePriority(TaskData(payload[t]).priority),
                          use_gpu |-> ShouldUseGpu(gpu_available, mem,
                                          TaskData(payload[t]).priority,
                                          TaskData(payload[t]).text_len),
                          retry_count |-> 0]]
            tasks == SelectSeq(batch, LAMBDA t : t \notin raised)
        IN  /\ read_count' = read_count + k
            /\ msg_kind' = [t \in Tasks |->
                              IF t \in DOMAIN payload THEN payload[t].kind ELSE msg_kind[t]]
            /\ task' = [t \in Tasks |->
                          IF t \in DOMAIN payload /\ t \notin raised
                          THEN parsed[t] ELSE task[t]]
            /\ acks' = [t \in Tasks |-> IF t \in raised THEN acks[t] + 1 ELSE acks[t]]
            /\ priority_queues' =
                   [p \in TaskPriority |->
                       priority_queues[p] \o
                       SelectSeq(tasks, LAMBDA t : parsed[t].priority = p)]
            /\ global_stats' = [global_stats EXCEPT !.total_tasks = @ + Len(tasks)]
            /\ poll' = [read |-> "messages", returned |-> Returned(tasks),
                        slept |-> PollInterval]
            /\ UNCHANGED <<worker, gpu_available, out_stream, attempts, synth_ok>>

\* An iteration of _task_dispatcher_loop in which xreadgroup found no new
\* message: _read_redis_stream returns [], the loop sleeps poll_interval.
DispatcherPollEmpty ==
    /\ poll' = [read |-> "empty", returned |-> Returned(<<>>), slept |-> PollInterval]
    /\ UNCHANGED <<read_count, task, priority_queues, worker, gpu_available, out_stream,
                   acks, attempts, synth_ok, global_stats, msg_kind>>

\* An iteration in which xreadgroup raised (broker unreachable):
\* _read_redis_stream logs the exception and returns [], so
\* _get_tasks_from_redis returns [] and the loop sleeps poll_interval.
DispatcherReadFails ==
    /\ poll' = [read |-> "raised", returned |-> Returned(<<>>), slept |-> PollInterval]
    /\ UNCHANGED <<read_count, task, priority_queues, worker, gpu_available, out_stream,
                   acks, attempts, synth_ok, global_stats, msg_kind>>

\* _worker_loop: `task = await self._get_next_task()` returned a task; the
\* worker enters _process_task and awaits the synthesis.
WorkerDequeue(w) ==
    LET p == NextPriority(priority_queues) IN
    /\ worker[w].pc = "idle"
    /\ p # 0
    /\ LET t == Head(priority_queues[p]) IN
        /\ priority_queues' = QueueGet(priority_queues, p)
        /\ worker' = [worker EXCEPT ![w] = [pc |-> "synth", task |-> t]]
        /\ attempts' = [attempts EXCEPT ![t] = @ + 1]
    /\ UNCHANGED <<read_count, task, gpu_available, out_stream, acks, synth_ok,
                   global_stats, msg_kind, poll>>

\* _process_task after the synthesis returned `outcome`, with the rest of the
\* worker loop's iteration: result and acknowledgement on success, otherwise
\* _handle_task_error up to its sleep or to the terminal failure.
WorkerSynthesisReturns(w) ==
    /\ worker[w].pc = "synth"
    /\ LET t == worker[w].task IN
       \E returned \in Outcomes(t) :
       LET outcome == Guarded(returned) IN
       IF outcome = "raised"
       THEN \* an exception nothing caught ends the worker's coroutine
            /\ worker' = [worker EXCEPT ![w].pc = "dead"]
            /\ UNCHANGED <<synth_ok, out_stream, acks, task, global_stats>>
       ELSE
        /\ synth_ok' = [synth_ok EXCEPT ![t] = @ \/ Synthesized(outcome)]
        /\ IF Truthy(outcome)
           THEN /\ out_stream' = SendResult(out_stream, t, outcome)
                /\ acks' = [acks EXCEPT ![t] = @ + 1]
                /\ task' = [task EXCEPT ![t] = NoTask]
                /\ worker' = [worker EXCEPT ![w] = Idle]
                /\ global_stats' = [global_stats EXCEPT !.completed_tasks = @ + 1]
           ELSE LET rc == task[t].retry_count + 1 IN
                IF ShouldRetry(rc)
                THEN /\ task' = [task EXCEPT ![t].retry_count = rc]
                     /\ worker' = [worker EXCEPT ![w].pc = "retry_sleep"]
                     /\ UNCHANGED <<out_stream, acks, global_stats>>
                ELSE /\ out_stream' = SendResult(out_stream, t, "none")
                     /\ acks' = [acks EXCEPT ![t] = @ + 1]
                     /\ task' = [task EXCEPT ![t] = NoTask]
                     /\ worker' = [worker EXCEPT ![w] = Idle]
                     /\ global_stats' = [global_stats EXCEPT !.failed_tasks = @ + 1]
    /\ UNCHANGED <<read_count, priority_queues, gpu_available, attempts, msg_kind, poll>>

\* A retry handler that re-enqueues every task at NORMAL priority.
RetryLaneNormal(tk) == NORMAL

\* _handle_task_error: the lane of `self.priority_queues[task.priority].put(task)`.
RetryLane(tk) == tk.priority

\* _handle_task_error after `await asyncio.sleep(1)`: the task goes back into
\* the lane of its priority; _process_task returns False to the worker loop.
WorkerRequeue(w) ==
    /\ worker[w].pc = "retry_sleep"
    /\ LET t == worker[w].task IN
        priority_queues' = QueuePut(priority_queues, RetryLane(task[t]), t)
    /\ worker' = [worker EXCEPT ![w] = Idle]
    /\ global_stats' = [global_stats EXCEPT !.failed_tasks = @ + 1]
    /\ UNCHANGED <<read_count, task, gpu_available, out_stream, acks, attempts, synth_ok,
                   msg_kind, poll>>

NextAWM ==
    \/ DispatcherPoll /\ UNCHANGED notAWM
    \/ \E w \in Workers : WorkerDequeue(w) /\ UNCHANGED notAWM
    \/ \E w \in Workers : WorkerSynthesisReturns(w) /\ UNCHANGED notAWM
    \/ \E w \in Workers : WorkerRequeue(w) /\ UNCHANGED notAWM

\* The dispatcher loop alone, with a broker that may have nothing new or be
\* unreachable.
NextDispatch ==
    \/ DispatcherPoll /\ UNCHANGED notAWM
    \/ DispatcherPollEmpty /\ UNCHANGED notAWM
    \/ DispatcherReadFails /\ UNCHANGED notAWM

(***************************************************************************)
(* GPUWorkerPool and GPUConfig                                             *)
(***************************************************************************)
\* Bound of the model: tasks submitted to the pool's request stream.
MaxGpuTasks == 3

\* GPUConfig's defaults (the same as the defaults of GPUWorkerPool.__init__).
DefaultConfig ==
    [min_concurrent |-> 1, max_concurrent |-> 4, initial_concurrent |-> 2,
     low |-> 30, high |-> 80, critical |-> 90]

\* Configurations GPUConfig.from_env can produce: every field is whatever the
\* environment holds.
Configs ==
    { DefaultConfig,
      [DefaultConfig EXCEPT !.low = 80, !.high = 30],
      [DefaultConfig EXCEPT !.min_concurrent = 2, !.max_concurrent = 1],
      [DefaultConfig EXCEPT !.max_concurrent = 2, !.initial_concurrent = 3],
      [DefaultConfig EXCEPT !.min_concurrent = 2, !.max_concurrent = 3,
                            !.initial_concurrent = 1] }

\* memory_usage_percent of the samples _get_gpu_metrics may return.
MemSamples == {20, 30, 50, 80, 90, 95}

\* Worker loops and semaphore objects that can be alive at once: a semaphore
\* is alive while it is self.semaphore or a worker is inside (or waiting to
\* enter) its `async with`.
MaxPoolWorkers == 3
PoolWorkers == 1..MaxPoolWorkers
Slots == 1..(MaxPoolWorkers + 1)

PoolIdle == [pc |-> "read", gate |-> 0]

\* GPUConfig.validate: TRUE when it returns True, FALSE when it raises
\* ValueError (the fields the model carries).
Validate(c) ==
    /\ ~(c.min_concurrent < 1)
    /\ ~(c.max_concurrent < c.min_concurrent)
    /\ ~(c.initial_concurrent < c.min_concurrent \/ c.initial_concurrent > c.max_concurrent)
    /\ (0 <= c.low /\ c.low <= 100)
    /\ (0 <= c.high /\ c.high <= 100)
    /\ (0 <= c.critical /\ c.critical <= 100)
    /\ (c.low <= c.high /\ c.high <= c.critical)

\* gpu_config.py, module level: gpu_config.validate() inside try/except
\* ValueError, whose handler logs a warning; either way the module exports
\* gpu_config.
LoadConfig(c) == IF Validate(c) THEN "validated" ELSE "warning_logged"

\* gpu_worker_pool.py, module level: GPUWorkerPool(config=gpu_config) whenever
\* gpu_config could be imported; __init__ copies the fields as they are.
Constructible(c) == LoadConfig(c) \in {"validated", "warning_logged"}

\* _adapt_concurrency with strict comparisons.
AdaptConcurrencyStrict(c, cur, m) ==
    IF m > c.critical THEN c.min_concurrent
    ELSE IF m > c.high THEN Max(c.min_concurrent, cur - 1)
    ELSE IF m < c.low THEN Min(c.max_concurrent, cur + 1)
    ELSE cur

\* _adapt_concurrency with max() for min() in the ramp-up.
AdaptConcurrencyMaxForMin(c, cur, m) ==
    IF m >= c.critical THEN c.min_concurrent
    ELSE IF m >= c.high THEN Max(c.min_concurrent, cur - 1)
    ELSE IF m <= c.low THEN Max(c.max_concurrent, cur + 1)
    ELSE cur

\* _adapt_concurrency: the new value of self.current_concurrent.
AdaptConcurrency(c, cur, m) ==
    IF m >= c.critical THEN c.min_concurrent
    ELSE IF m >= c.high THEN Max(c.min_concurrent, cur - 1)
    ELSE IF m <= c.low THEN Min(c.max_concurrent, cur + 1)
    ELSE cur

\* The semaphore objects in use: self.semaphore and those a worker entered.
Referenced(sem, gw) == ({sem} \cup {gw[w].gate : w \in PoolWorkers}) \ {0}
\* The slot a newly created asyncio.Semaphore takes: the first one no worker
\* is using (the semaphore it replaces as self.semaphore is gone unless a
\* worker entered it).
FreeSlot(gw) == CHOOSE s \in Slots :
    /\ s \notin Referenced(0, gw)
    /\ \A r \in Slots : r \notin Referenced(0, gw) => s <= r
\* Unreferenced semaphore objects are gone.
Collect(g, sem, gw) == [s \in Slots |-> IF s \in Referenced(sem, gw) THEN g[s] ELSE 0]

\* The samples of the scenario min=1, max=4, initial=2.
Scenario == <<95, 95, 20, 20, 20>>
Deviated == 0 - 1

InitPool ==
    /\ cfg \in {c \in Configs : Constructible(c)}
    /\ pool_running = FALSE
    /\ current_concurrent = cfg.initial_concurrent
    /\ semaphore = 1
    /\ gates = [s \in Slots |-> IF s = 1 THEN cfg.initial_concurrent ELSE 0]
    /\ gpu_worker = [w \in PoolWorkers |-> PoolIdle]
    /\ worker_tasks = 0
    /\ gpu_stream = [unread |-> 0, results |-> 0, acked |-> 0]
    /\ gpu_stats = [total_tasks |-> 0, completed_tasks |-> 0, failed_tasks |-> 0,
                    current_concurrent |-> cfg.initial_concurrent]
    /\ last_gpu_metrics = None
    /\ old_concurrent = cfg.initial_concurrent
    /\ scenario_pos = IF cfg = DefaultConfig THEN 0 ELSE Deviated

\* _start_workers starting a worker loop for every permit the limit may
\* ever allow.
StartWorkersForMax(c, cur) == c.max_concurrent

\* _start_workers: `for i in range(self.current_concurrent)`, called once, by
\* initialize; the number of worker loops it creates.
StartWorkers(c, cur) == cur

\* GPUWorkerPool.initialize: starts the monitor and range(current_concurrent)
\* worker loops, then sets running.
PoolInitialize ==
    /\ ~pool_running
    /\ pool_running' = TRUE
    /\ worker_tasks' = StartWorkers(cfg, current_concurrent)
    /\ UNCHANGED <<cfg, current_concurrent, semaphore, gates, gpu_worker, gpu_stream,
                   gpu_stats, last_gpu_metrics, old_concurrent, scenario_pos>>

\* One iteration of _monitor_gpu with sample m: _adapt_concurrency and, when
\* the value changed, _update_semaphore, which replaces self.semaphore; its
\* drain loop then reads old_semaphore._initial_value, an attribute
\* asyncio.Semaphore does not have, so the AttributeError ends the iteration
\* in _monitor_gpu's handler before stats['current_concurrent'] is written.
MonitorSample(m) ==
    /\ pool_running
    /\ LET new == AdaptConcurrency(cfg, current_concurrent, m) IN
        /\ last_gpu_metrics' = m
        /\ old_concurrent' = current_concurrent
        /\ current_concurrent' = new
        /\ IF new # current_concurrent
           THEN LET s == FreeSlot(gpu_worker) IN
                /\ semaphore' = s
                /\ gates' = Collect([gates EXCEPT ![s] = new], s, gpu_worker)
           ELSE UNCHANGED <<semaphore, gates>>
        /\ scenario_pos' =
              IF /\ cfg = DefaultConfig
                 /\ scenario_pos # Deviated
                 /\ scenario_pos < Len(Scenario)
                 /\ m = Scenario[scenario_pos + 1]
              THEN scenario_pos + 1
              ELSE Deviated
    /\ UNCHANGED <<cfg, pool_running, gpu_worker, worker_tasks, gpu_stream, gpu_stats>>

\* submit_task: xadd to the request stream, stats['total_tasks'] += 1.
SubmitTask ==
    /\ pool_running
    /\ gpu_stats.total_tasks < MaxGpuTasks
    /\ gpu_stream' = [gpu_stream EXCEPT !.unread = @ + 1]
    /\ gpu_stats' = [gpu_stats EXCEPT !.total_tasks = @ + 1]
    /\ UNCHANGED <<cfg, pool_running, current_concurrent, semaphore, gates, gpu_worker,
                   worker_tasks, last_gpu_metrics, old_concurrent, scenario_pos>>

\* _worker: _get_next_task returned a message; _process_task parses it and
\* enters `async with self.semaphore`, acquiring at once when a permit is free.
PoolWorkerRead(w) ==
    /\ pool_running
    /\ w <= worker_tasks
    /\ gpu_worker[w].pc = "read"
    /\ gpu_stream.unread > 0
    /\ gpu_stream' = [gpu_stream EXCEPT !.unread = @ - 1]
    /\ IF gates[semaphore] > 0
       THEN /\ gates' = [gates EXCEPT ![semaphore] = @ - 1]
            /\ gpu_worker' = [gpu_worker EXCEPT ![w] = [pc |-> "synth", gate |-> semaphore]]
       ELSE /\ gates' = gates
            /\ gpu_worker' = [gpu_worker EXCEPT ![w] = [pc |-> "acquire", gate |-> semaphore]]
    /\ UNCHANGED <<cfg, pool_running, current_concurrent, semaphore, worker_tasks,
                   gpu_stats, last_gpu_metrics, old_concurrent, scenario_pos>>

\* A worker waiting in Semaphore.acquire gets a released permit.
PoolWorkerAcquire(w) ==
    /\ gpu_worker[w].pc = "acquire"
    /\ gates[gpu_worker[w].gate] > 0
    /\ gates' = [gates EXCEPT ![gpu_worker[w].gate] = @ - 1]
    /\ gpu_worker' = [gpu_worker EXCEPT ![w].pc = "synth"]
    /\ UNCHANGED <<cfg, pool_running, current_concurrent, semaphore, worker_tasks,
                   gpu_stream, gpu_stats, last_gpu_metrics, old_concurrent, scenario_pos>>

\* _process_task after _synthesize_speech returned: the counters, the result
\* message (on success only), the acknowledgement, and the release of the
\* semaphore that was entered.
PoolWorkerSynthesisReturns(w) ==
    /\ gpu_worker[w].pc = "synth"
    /\ \E ok \in BOOLEAN :
        /\ gpu_stats' = IF ok THEN [gpu_stats EXCEPT !.completed_tasks = @ + 1]
                              ELSE [gpu_stats EXCEPT !.failed_tasks = @ + 1]
        /\ gpu_stream' = [gpu_stream EXCEPT !.results = IF ok THEN @ + 1 ELSE @,
                                            !.acked = @ + 1]
    /\ gpu_worker' = [gpu_worker EXCEPT ![w] = PoolIdle]
    /\ gates' = Collect([gates EXCEPT ![gpu_worker[w].gate] = @ + 1], semaphore, gpu_worker')
    /\ UNCHANGED <<cfg, pool_running, current_concurrent, semaphore, worker_tasks,
                   last_gpu_metrics, old_concurrent, scenario_pos>>

NextPool ==
    \/ PoolInitialize /\ UNCHANGED notPool
    \/ \E m \in MemSamples : MonitorSample(m) /\ UNCHANGED notPool
    \/ SubmitTask /\ UNCHANGED notPool
    \/ \E w \in PoolWorkers : PoolWorkerRead(w) /\ UNCHANGED notPool
    \/ \E w \in PoolWorkers : PoolWorkerAcquire(w) /\ UNCHANGED notPool
    \/ \E w \in PoolWorkers : PoolWorkerSynthesisReturns(w) /\ UNCHANGED notPool

(***************************************************************************)
(* GPUHealthMonitor                                                        *)
(***************************************************************************)
\* Arguments _calculate_health_score is called with: memory usage and
\* utilization in percent, temperature in degrees or None, error rate
\* in permille, average processing time in seconds.
MemoryUsages == {60, 70, 71, 80, 81, 90, 91}
Utilizations == {0, 29, 30, 50, 80, 81}
Temperatures == {None, 70, 75, 76, 80, 81, 85, 86}
ErrorRates == {0, 10, 11, 50, 51, 100, 101}
ProcessingTimes == {0, 30, 31, 60, 61}

HealthInputs ==
    [memory_usage : MemoryUsages, gpu_utilization : Utilizations,
     temperature : Temperatures, error_rate : ErrorRates,
     avg_processing_time : ProcessingTimes]

\* _calculate_health_score with >= for > in every penalty test.
CalculateHealthScoreInclusive(memory_usage, gpu_utilization, temperature, error_rate, avg_processing_time) ==
    LET s1 == 100 - (IF memory_usage >= 90 THEN 40
                     ELSE IF memory_usage >= 80 THEN 20
                     ELSE IF memory_usage >= 70 THEN 10 ELSE 0)
        s2 == s1 - (IF temperature = None THEN 0
                    ELSE IF temperature >= 85 THEN 30
                    ELSE IF temperature >= 80 THEN 15
                    ELSE IF temperature >= 75 THEN 5 ELSE 0)
        s3 == s2 - (IF error_rate >= 100 THEN 25
                    ELSE IF error_rate >= 50 THEN 10
                    ELSE IF error_rate >= 10 THEN 5 ELSE 0)
        s4 == s3 - (IF avg_processing_time >= 60 THEN 15
                    ELSE IF avg_processing_time >= 30 THEN 5 ELSE 0)
        s5 == IF 30 <= gpu_utilization /\ gpu_utilization <= 80 THEN s4 + 5 ELSE s4
    IN  Max(0, Min(100, s5))

\* _calculate_health_score with a utilization bonus of 15 for 5.
CalculateHealthScoreBonus15(memory_usage, gpu_utilization, temperature, error_rate, avg_processing_time) ==
    LET s1 == 100 - (IF memory_usage > 90 THEN 40
                     ELSE IF memory_usage > 80 THEN 20
                     ELSE IF memory_usage > 70 THEN 10 ELSE 0)
        s2 == s1 - (IF temperature = None THEN 0
                    ELSE IF temperature > 85 THEN 30
                    ELSE IF temperature > 80 THEN 15
                    ELSE IF temperature > 75 THEN 5 ELSE 0)
        s3 == s2 - (IF error_rate > 100 THEN 25
                    ELSE IF error_rate > 50 THEN 10
                    ELSE IF error_rate > 10 THEN 5 ELSE 0)
        s4 == s3 - (IF avg_processing_time > 60 THEN 15
                    ELSE IF avg_processing_time > 30 THEN 5 ELSE 0)
        s5 == IF 30 <= gpu_utilization /\ gpu_utilization <= 80 THEN s4 + 15 ELSE s4
    IN  Max(0, Min(100, s5))

\* _calculate_health_score
CalculateHealthScore(memory_usage, gpu_utilization, temperature, error_rate, avg_processing_time) ==
    LET s1 == 100 - (IF memory_usage > 90 THEN 40
                     ELSE IF memory_usage > 80 THEN 20
                     ELSE IF memory_usage > 70 THEN 10 ELSE 0)
        s2 == s1 - (IF temperature = None THEN 0
                    ELSE IF temperature > 85 THEN 30
                    ELSE IF temperature > 80 THEN 15
                    ELSE IF temperature > 75 THEN 5 ELSE 0)
        s3 == s2 - (IF error_rate > 100 THEN 25
                    ELSE IF error_rate > 50 THEN 10
                    ELSE IF error_rate > 10 THEN 5 ELSE 0)
        s4 == s3 - (IF avg_processing_time > 60 THEN 15
                    ELSE IF avg_processing_time > 30 THEN 5 ELSE 0)
        s5 == IF 30 <= gpu_utilization /\ gpu_utilization <= 80 THEN s4 + 5 ELSE s4
    IN  Max(0, Min(100, s5))

InitScore ==
    /\ hs_in \in HealthInputs
    /\ hs_score = None

\* _calculate_health_metrics calling _calculate_health_score on the sample.
CalculateHealthMetrics ==
    /\ hs_score = None
    /\ hs_score' = CalculateHealthScore(hs_in.memory_usage, hs_in.gpu_utilization,
                       hs_in.temperature, hs_in.error_rate, hs_in.avg_processing_time)
    /\ UNCHANGED hs_in

NextScore ==
    CalculateHealthMetrics /\ UNCHANGED notScore

(***************************************************************************)
(* _should_use_gpu: AsyncWorkerManager's copy and GPUIntegrationService's  *)
(***************************************************************************)
\* An evaluation's inputs: whether the pool is there (self.gpu_worker_pool is
\* set / gpu_worker_pool.running), the memory_usage_percent of
\* get_gpu_metrics() (None: no metrics yet), the payload's priority and the
\* length of its text.
EligMemReadings == {None, 50, 95, 96}
EligPriorities == {-2, -1, 0, 1, 2, 4}
EligTextLens == {0, 49, 50, 51}
EligInputs == [pool : BOOLEAN, mem : EligMemReadings, priority : EligPriorities,
               text_len : EligTextLens]

\* GPUIntegrationService._should_use_gpu
RouterShouldUseGpu(running, mem, prio, len) ==
    IF ~running THEN FALSE
    ELSE IF mem # None /\ mem > GpuMemoryLimit THEN FALSE
    ELSE IF prio < 0 THEN FALSE
    ELSE IF len < MinGpuTextLen THEN FALSE
    ELSE TRUE

InitElig ==
    /\ elig_in \in EligInputs
    /\ elig_out = <<>>

\* One call of each copy on the same inputs.
EvaluateShouldUseGpu ==
    /\ elig_out = <<>>
    /\ elig_out' = <<ShouldUseGpu(elig_in.pool, elig_in.mem, elig_in.priority, elig_in.text_len),
                     RouterShouldUseGpu(elig_in.pool, elig_in.mem, elig_in.priority, elig_in.text_len)>>
    /\ UNCHANGED elig_in

NextElig == EvaluateShouldUseGpu /\ UNCHANGED notElig

(***************************************************************************)
(* GPUIntegrationService                                                   *)
(***************************************************************************)
\* Bounds of the model: input messages the router processes, and tasks other
\* clients submit to the pool.
MaxRouterTasks == 2
MaxSubmitted == 1

RouterTasks == 1..MaxRouterTasks
GpuTasks == 1..(MaxRouterTasks + MaxSubmitted)
\* task_id '' of a result message that carries none.
NoId == 0

\* GPUIntegrationConfig: the stream the router forwards to and the stream it
\* reads GPU results from.
RouterConfig == [gpu_stream |-> "gpu_tts_requests", gpu_results_stream |-> "gpu_tts_results"]
\* Values of GPUConfig.gpu_stream (GPU_STREAM): the default, and the one whose
\* result stream is the router's gpu_results_stream.
GpuStreamNames == {"gpu_tts_requests", "gpu_tts"}
\* f'{self.stream_name}_results' of GPUWorkerPool._send_result
ResultsStreamOf(name) ==
    IF name = "gpu_tts_requests" THEN "gpu_tts_requests_results" ELSE "gpu_tts_results"
StreamNames == GpuStreamNames \cup {ResultsStreamOf(n) : n \in GpuStreamNames}

\* A stream message: the task it is about and whether it carries the task's
\* fields as JSON in a 'data' field (has_data) or as flat fields.
Message(t, has_data) == [task_id |-> t, has_data |-> has_data]

\* _process_gpu_result: json.loads(fields.get('data', '{}')).get('task_id', '')
ResultTaskId(m) == IF m.has_data THEN m.task_id ELSE NoId

\* What _process_on_cpu gets from the engine: the dict of
\* synthesize_speech_async, or an exception (engine not ready included).
CpuOutcomes == {"dict_ok", "dict_failed", "raised"}

InitRouter ==
    /\ pool_stream_name \in GpuStreamNames
    /\ input_read = 0
    /\ task_cache = {}
    /\ streams = [n \in StreamNames |-> <<>>]
    /\ submitted = 0
    /\ pool_done = [t \in GpuTasks |-> "no"]
    /\ router_out = [t \in RouterTasks |-> 0]
    /\ router_acks = [t \in RouterTasks |-> 0]

\* _process_input_task on the next input message: _forward_to_gpu when
\* _should_use_gpu says so, else _process_on_cpu.
RouterProcessInputTask ==
    /\ input_read < MaxRouterTasks
    /\ LET t == input_read + 1 IN
       \E running \in BOOLEAN, mem \in GpuMemReadings,
          prio \in PayloadPriorities, len \in TextLens :
        /\ input_read' = t
        /\ IF RouterShouldUseGpu(running, mem, prio, len)
           THEN /\ streams' = [streams EXCEPT ![RouterConfig.gpu_stream] =
                                   Append(@, Message(t, TRUE))]
                /\ task_cache' = task_cache \cup {t}
                /\ UNCHANGED <<router_out, router_acks>>
           ELSE \E outcome \in CpuOutcomes :
                /\ router_out' = [router_out EXCEPT ![t] =
                       IF outcome = "raised" \/ Encodable(outcome) THEN @ + 1 ELSE @]
                /\ router_acks' = [router_acks EXCEPT ![t] = @ + 1]
                /\ UNCHANGED <<streams, task_cache>>
    /\ UNCHANGED <<pool_stream_name, submitted, pool_done>>

\* GPUWorkerPool.submit_task called by another client of the pool.
RouterPoolSubmit ==
    /\ submitted < MaxSubmitted
    /\ submitted' = submitted + 1
    /\ streams' = [streams EXCEPT ![pool_stream_name] =
                       Append(@, Message(MaxRouterTasks + submitted + 1, TRUE))]
    /\ UNCHANGED <<pool_stream_name, input_read, task_cache, pool_done, router_out,
                   router_acks>>

\* The pool serves the next message of its request stream (_worker,
\* _process_task): on success _send_result writes the result, as flat fields,
\* to its result stream; on failure nothing is written; the request is
\* acknowledged either way.
RouterPoolProcessTask ==
    /\ streams[pool_stream_name] # <<>>
    /\ LET m == Head(streams[pool_stream_name])
           t == IF m.has_data THEN m.task_id ELSE NoId
       IN  \E ok \in BOOLEAN :
            /\ pool_done' = [pool_done EXCEPT ![t] = IF ok THEN "completed" ELSE "failed"]
            /\ streams' =
                 [n \in StreamNames |->
                    IF n = pool_stream_name THEN Tail(streams[n])
                    ELSE IF n = ResultsStreamOf(pool_stream_name) /\ ok
                         THEN Append(streams[n], Message(t, FALSE))
                         ELSE streams[n]]
    /\ UNCHANGED <<pool_stream_name, input_read, task_cache, submitted, router_out,
                   router_acks>>

\* _result_worker / _process_gpu_result on the next message of the router's
\* gpu_results_stream.
RouterProcessGpuResult ==
    /\ streams[RouterConfig.gpu_results_stream] # <<>>
    /\ LET m == Head(streams[RouterConfig.gpu_results_stream])
           t == ResultTaskId(m)
       IN  /\ streams' = [streams EXCEPT ![RouterConfig.gpu_results_stream] = Tail(@)]
           /\ IF t \in task_cache
              THEN /\ router_out' = [router_out EXCEPT ![t] = @ + 1]
                   /\ router_acks' = [router_acks EXCEPT ![t] = @ + 1]
                   /\ task_cache' = task_cache \ {t}
              ELSE UNCHANGED <<router_out, router_acks, task_cache>>
    /\ UNCHANGED <<pool_stream_name, input_read, submitted, pool_done>>

\* GPUWorkerPool.stats as the pool's handlers leave it: total_tasks counts the
\* submit_task calls, completed_tasks and failed_tasks the messages
\* _process_task served.
PoolStats ==
    [total_tasks |-> submitted,
     completed_tasks |-> Cardinality({t \in GpuTasks : pool_done[t] = "completed"}),
     failed_tasks |-> Cardinality({t \in GpuTasks : pool_done[t] = "failed"})]

NextRouter ==
    \/ RouterProcessInputTask /\ UNCHANGED notRouter
    \/ RouterPoolSubmit /\ UNCHANGED notRouter
    \/ RouterPoolProcessTask /\ UNCHANGED notRouter
    \/ RouterProcessGpuResult /\ UNCHANGED notRouter

(***************************************************************************)
(* GPUHealthMonitor.health_history                                         *)
(***************************************************************************)
\* Bound of the model: samples the monitor loop adds.
MaxSamples == 5
\* Capacities the monitor is constructed with (the default is 100), and the
\* samples told apart by their health_score.
HistorySizes == {1, 2, 3}
SampleScores == {0, 50, 100}

\* _add_to_history with pop() for pop(0).
AddToHistoryDropNewest(history, metrics, size) ==
    LET h == Append(history, metrics)
    IN  IF Len(h) > size THEN SubSeq(h, 1, Len(h) - 1) ELSE h

\* _add_to_history: append, then pop(0) when the list is longer than the
\* capacity.
AddToHistory(history, metrics, size) ==
    LET h == Append(history, metrics)
    IN  IF Len(h) > size THEN Tail(h) ELSE h

InitHist ==
    /\ health_history_size \in HistorySizes
    /\ health_history = <<>>
    /\ arrivals = <<>>

\* One iteration of _monitor_loop that got metrics: the new sample goes into
\* the history.
MonitorLoopSample ==
    /\ Len(arrivals) < MaxSamples
    /\ \E metrics \in SampleScores :
        /\ health_history' = AddToHistory(health_history, metrics, health_history_size)
        /\ arrivals' = Append(arrivals, metrics)
    /\ UNCHANGED health_history_size

NextHist == MonitorLoopSample /\ UNCHANGED notHist

(***************************************************************************)
(* TTSWorker, the stand-alone stream worker (worker.py)                    *)
(***************************************************************************)
\* Bound of the model: messages on 'tts_requests'.
MaxWorkerMessages == 3
WorkerMessages == 1..MaxWorkerMessages

\* What a message's fields hold: "text", a non-empty text with fields int()
\* accepts; "empty", no text or only blanks; "bad_int", a non-empty text with a
\* user_id or priority on which int() raises.
FieldKinds == {"text", "empty", "bad_int"}
\* A message nobody has read; then "pending" (delivered to the group, in its
\* pending list, unacknowledged) and "acked".
NewMessage == [state |-> "new", fields |-> "none", published |-> 0, attempts |-> 0]
\* What _synthesize_speech returns: the audio URL, or None (a wait timed out,
\* no audio file, or an exception).
SpeechOutcomes == {"audio_url", "none"}

InitTTSWorker ==
    /\ tts_worker = [pc |-> "get", message_id |-> 0, processed_tasks |-> 0, failed_tasks |-> 0]
    /\ tts_requests = [m \in WorkerMessages |-> NewMessage]

\* _get_tasks: xreadgroup(consumer_group, worker_id, {stream_name: '>'},
\* count=1) delivers the oldest message never delivered to the group; the loop
\* calls _process_task on it. The read is modelled as the broker call it
\* names. (The source hands count= and block= to run_in_executor as keyword
\* arguments, which run_in_executor does not take: as written the call raises
\* TypeError, _get_tasks returns [] and _process_task is never reached.)
TTSWorkerGetTasks ==
    /\ tts_worker.pc = "get"
    /\ \E m \in WorkerMessages, fields \in FieldKinds :
        /\ tts_requests[m].state = "new"
        /\ \A n \in WorkerMessages : n < m => tts_requests[n].state # "new"
        /\ tts_requests' = [tts_requests EXCEPT ![m].state = "pending", ![m].fields = fields]
        /\ tts_worker' = [tts_worker EXCEPT !.pc = "process", !.message_id = m]

\* _process_task: an empty text is acknowledged and skipped; a synthesized one
\* is published and acknowledged; when _synthesize_speech returns None, or a
\* field does not parse, only failed_tasks is incremented.
TTSWorkerProcessTask ==
    /\ tts_worker.pc = "process"
    /\ LET m == tts_worker.message_id
           fields == tts_requests[m].fields
       IN  \E audio_url \in SpeechOutcomes :
            /\ fields # "text" => audio_url = "none"
            /\ IF fields = "empty"
               THEN /\ tts_requests' = [tts_requests EXCEPT ![m].state = "acked",
                                                            ![m].attempts = @ + 1]
                    /\ tts_worker' = [tts_worker EXCEPT !.pc = "get"]
               ELSE IF fields = "text" /\ audio_url # "none"
               THEN /\ tts_requests' = [tts_requests EXCEPT ![m].state = "acked",
                                                            ![m].published = @ + 1,
                                                            ![m].attempts = @ + 1]
                    /\ tts_worker' = [tts_worker EXCEPT !.pc = "get",
                                                        !.processed_tasks = @ + 1]
               ELSE /\ tts_requests' = [tts_requests EXCEPT ![m].attempts = @ + 1]
                    /\ tts_worker' = [tts_worker EXCEPT !.pc = "get",
                                                        !.failed_tasks = @ + 1]

NextTTSWorker ==
    \/ TTSWorkerGetTasks /\ UNCHANGED notTTS
    \/ TTSWorkerProcessTask /\ UNCHANGED notTTS

(***************************************************************************)
(* The input stream, read by AsyncWorkerManager and GPUIntegrationService  *)
(***************************************************************************)
\* Bound of the model: messages added to an input stream.
MaxInputMessages == 2
InputMessages == 1..MaxInputMessages

\* The names each service is constructed with by default, and the consumer
\* name its xreadgroup call passes.
AWMDefaults ==
    [input_stream |-> "tts_requests", output_stream |-> "tts_results", consumer_group |-> "tts_workers", consumer |-> "dispatcher"]
RouterDefaults ==
    [input_stream |-> "tts_requests", output_stream |-> "tts_results", consumer_group |-> "gpu_integration", consumer |-> "input_worker"]
Services == {AWMDefaults, RouterDefaults}

\* A consumer group of a stream has one last-delivered id.
Cursor(s) == <<s.input_stream, s.consumer_group>>
\* The m-th message of the stream a service reads, and where its result goes.
InputKey(s, m) == <<s.input_stream, m>>
OutputKey(s, m) == <<s.output_stream, s.input_stream, m>>
InputKeys == {InputKey(s, m) : s \in Services, m \in InputMessages}

InitBroker ==
    /\ group_cursor = [c \in {Cursor(s) : s \in Services} |-> 0]
    /\ readers = [k \in InputKeys |-> {}]
    /\ handled = [k \in InputKeys |-> {}]
    /\ output_results = [k \in {OutputKey(s, m) : s \in Services, m \in InputMessages} |-> 0]

\* xreadgroup(consumer_group, consumer, {input_stream: '>'}) of service s: the
\* broker delivers the next message never delivered to that group of that
\* stream, and moves the group's cursor.
XReadGroup(s) ==
    LET m == group_cursor[Cursor(s)] + 1 IN
    /\ m <= MaxInputMessages
    /\ group_cursor' = [group_cursor EXCEPT ![Cursor(s)] = m]
    /\ readers' = [readers EXCEPT ![InputKey(s, m)] = @ \cup {s.consumer}]
    /\ UNCHANGED <<handled, output_results>>

\* Service s is done with a message it read: its _send_result has put one
\* result on its output stream, or nothing was published (the CPU path's
\* dict result, a task forwarded to the GPU stream).
ServiceHandles(s, m) ==
    /\ s.consumer \in readers[InputKey(s, m)] \ handled[InputKey(s, m)]
    /\ handled' = [handled EXCEPT ![InputKey(s, m)] = @ \cup {s.consumer}]
    /\ \E n \in {0, 1} :
        output_results' = [output_results EXCEPT ![OutputKey(s, m)] = @ + n]
    /\ UNCHANGED <<group_cursor, readers>>

NextBroker ==
    \/ \E s \in Services : XReadGroup(s) /\ UNCHANGED notBroker
    \/ \E s \in Services, m \in InputMessages : ServiceHandles(s, m) /\ UNCHANGED notBroker

(***************************************************************************)
(* AsyncWorkerManager._process_gpu_task and the jobs it submits            *)
(***************************************************************************)
\* The gpu_task_ids one task can be given: one per attempt.
JobIds == 1..max_retries
\* A job of the pool is "none" before submit_task, "queued" on the request
\* stream, "running" inside _process_task, then "completed" or "failed" in
\* completed_tasks.
Unfinished(j) == gpu_jobs[j] \in {"queued", "running"}

InitJob ==
    /\ gpu_task = [pc |-> "lane", gpu_task_id |-> 0, retry_count |-> 0]
    /\ gpu_jobs = [j \in JobIds |-> "none"]

\* _handle_task_error for the task: back to its lane after the sleep while
\* retries remain, else the terminal failure.
HandleTaskError(tk) ==
    IF ShouldRetry(tk.retry_count + 1)
    THEN [tk EXCEPT !.pc = "retry_sleep", !.retry_count = @ + 1]
    ELSE [tk EXCEPT !.pc = "failed", !.retry_count = @ + 1]

\* A worker takes the task from its lane; _process_gpu_task calls submit_task,
\* which puts a new job on the pool's request stream, and starts to poll
\* get_task_result for it.
GpuTaskSubmit ==
    /\ gpu_task.pc = "lane"
    /\ LET j == gpu_task.retry_count + 1 IN
        /\ gpu_jobs' = [gpu_jobs EXCEPT ![j] = "queued"]
        /\ gpu_task' = [gpu_task EXCEPT !.pc = "waiting", !.gpu_task_id = j]

\* A pool worker reads a job from the request stream and runs its synthesis.
PoolJobStarts(j) ==
    /\ gpu_jobs[j] = "queued"
    /\ Cardinality({i \in JobIds : gpu_jobs[i] = "running"}) < DefaultConfig.initial_concurrent
    /\ gpu_jobs' = [gpu_jobs EXCEPT ![j] = "running"]
    /\ UNCHANGED gpu_task

\* The synthesis of a job ends; the pool records it in completed_tasks.
PoolJobEnds(j) ==
    /\ gpu_jobs[j] = "running"
    /\ \E ok \in BOOLEAN :
        gpu_jobs' = [gpu_jobs EXCEPT ![j] = IF ok THEN "completed" ELSE "failed"]
    /\ UNCHANGED gpu_task

\* get_task_result returned the job the task waits for: its result_path ends
\* the attempt, as a success or (None) through _handle_task_error.
GpuTaskGetsResult ==
    /\ gpu_task.pc = "waiting"
    /\ gpu_jobs[gpu_task.gpu_task_id] \in {"completed", "failed"}
    /\ gpu_task' = IF gpu_jobs[gpu_task.gpu_task_id] = "completed"
                   THEN [gpu_task EXCEPT !.pc = "completed"]
                   ELSE HandleTaskError(gpu_task)
    /\ UNCHANGED gpu_jobs

\* wait_time reached worker_timeout before the job was in completed_tasks:
\* _process_gpu_task logs the timeout and returns None; the job is left as
\* it is.
GpuTaskWaitTimesOut ==
    /\ gpu_task.pc = "waiting"
    /\ Unfinished(gpu_task.gpu_task_id)
    /\ gpu_task' = HandleTaskError(gpu_task)
    /\ UNCHANGED gpu_jobs

\* _handle_task_error after its sleep: the task is back in its lane.
GpuTaskRequeue ==
    /\ gpu_task.pc = "retry_sleep"
    /\ gpu_task' = [gpu_task EXCEPT !.pc = "lane"]
    /\ UNCHANGED gpu_jobs

NextJob ==
    \/ GpuTaskSubmit /\ UNCHANGED notJob
    \/ \E j \in JobIds : PoolJobStarts(j) /\ UNCHANGED notJob
    \/ \E j \in JobIds : PoolJobEnds(j) /\ UNCHANGED notJob
    \/ GpuTaskGetsResult /\ UNCHANGED notJob
    \/ GpuTaskWaitTimesOut /\ UNCHANGED notJob
    \/ GpuTaskRequeue /\ UNCHANGED notJob

(***************************************************************************)
(* Specifications                                                          *)
(***************************************************************************)
\* Each specification runs one component; the others stay as constructed.
AWMAtRest ==
    /\ read_count = 0
    /\ task = [t \in Tasks |-> NoTask]
    /\ priority_queues = [p \in TaskPriority |-> <<>>]
    /\ worker = [w \in Workers |-> Idle]
    /\ gpu_available = FALSE
    /\ out_stream = [t \in Tasks |-> [completed |-> 0, failed |-> 0]]
    /\ acks = [t \in Tasks |-> 0]
    /\ attempts = [t \in Tasks |-> 0]
    /\ synth_ok = [t \in Tasks |-> FALSE]
    /\ global_stats = [total_tasks |-> 0, completed_tasks |-> 0, failed_tasks |-> 0]
    /\ msg_kind = [t \in Tasks |-> "unread"]
    /\ poll = NotPolled

PoolAtRest ==
    /\ cfg = DefaultConfig
    /\ pool_running = FALSE
    /\ current_concurrent = cfg.initial_concurrent
    /\ semaphore = 1
    /\ gates = [s \in Slots |-> IF s = 1 THEN cfg.initial_concurrent ELSE 0]
    /\ gpu_worker = [w \in PoolWorkers |-> PoolIdle]
    /\ worker_tasks = 0
    /\ gpu_stream = [unread |-> 0, results |-> 0, acked |-> 0]
    /\ gpu_stats = [total_tasks |-> 0, completed_tasks |-> 0, failed_tasks |-> 0,
                    current_concurrent |-> cfg.initial_concurrent]
    /\ last_gpu_metrics = None
    /\ old_concurrent = cfg.initial_concurrent
    /\ scenario_pos = 0

ScoreAtRest ==
    /\ hs_in = [memory_usage |-> 0, gpu_utilization |-> 0, temperature |-> None,
                error_rate |-> 0, avg_processing_time |-> 0]
    /\ hs_score = None

EligAtRest ==
    /\ elig_in = [pool |-> FALSE, mem |-> None, priority |-> 0, text_len |-> 0]
    /\ elig_out = <<>>

RouterAtRest ==
    /\ pool_stream_name = "gpu_tts_requests"
    /\ input_read = 0
    /\ task_cache = {}
    /\ streams = [n \in StreamNames |-> <<>>]
    /\ submitted = 0
    /\ pool_done = [t \in GpuTasks |-> "no"]
    /\ router_out = [t \in RouterTasks |-> 0]
    /\ router_acks = [t \in RouterTasks |-> 0]

HistAtRest ==
    /\ health_history_size = 3
    /\ health_history = <<>>
    /\ arrivals = <<>>

TTSWorkerAtRest ==
    /\ tts_worker = [pc |-> "get", message_id |-> 0, processed_tasks |-> 0, failed_tasks |-> 0]
    /\ tts_requests = [m \in WorkerMessages |-> NewMessage]

BrokerAtRest ==
    /\ group_cursor = [c \in {Cursor(s) : s \in Services} |-> 0]
    /\ readers = [k \in InputKeys |-> {}]
    /\ handled = [k \in InputKeys |-> {}]
    /\ output_results = [k \in {OutputKey(s, m) : s \in Services, m \in InputMessages} |-> 0]

JobAtRest ==
    /\ gpu_task = [pc |-> "lane", gpu_task_id |-> 0, retry_count |-> 0]
    /\ gpu_jobs = [j \in JobIds |-> "none"]

\* The components a specification does not run.
AtRest(awm, pool, score, elig, router, hist, tts, broker, job) ==
    /\ awm \/ AWMAtRest
    /\ pool \/ PoolAtRest
    /\ score \/ ScoreAtRest
    /\ elig \/ EligAtRest
    /\ router \/ RouterAtRest
    /\ hist \/ HistAtRest
    /\ tts \/ TTSWorkerAtRest
    /\ broker \/ BrokerAtRest
    /\ job \/ JobAtRest

Init == InitAWM /\ AtRest(TRUE, FALSE, FALSE, FALSE, FALSE, FALSE, FALSE, FALSE, FALSE)
Next == NextAWM
Spec == Init /\ [][Next]_vars

\* The dispatcher before any worker has taken a task.
DispatchSpec == Init /\ [][NextDispatch]_vars

\* The worker loops and the dispatcher are asyncio tasks of one event loop:
\* each runs again whenever it is ready.
FairSpec ==
    /\ Spec
    /\ WF_vars(DispatcherPoll /\ UNCHANGED notAWM)
    /\ \A w \in Workers :
        /\ WF_vars(WorkerDequeue(w) /\ UNCHANGED notAWM)
        /\ WF_vars(WorkerSynthesisReturns(w) /\ UNCHANGED notAWM)
        /\ WF_vars(WorkerRequeue(w) /\ UNCHANGED notAWM)

PoolInit == InitPool /\ AtRest(FALSE, TRUE, FALSE, FALSE, FALSE, FALSE, FALSE, FALSE, FALSE)
PoolSpec == PoolInit /\ [][NextPool]_vars

ScoreInit == InitScore /\ AtRest(FALSE, FALSE, TRUE, FALSE, FALSE, FALSE, FALSE, FALSE, FALSE)
ScoreSpec == ScoreInit /\ [][NextScore]_vars

EligInit == InitElig /\ AtRest(FALSE, FALSE, FALSE, TRUE, FALSE, FALSE, FALSE, FALSE, FALSE)
EligSpec == EligInit /\ [][NextElig]_vars

RouterInit == InitRouter /\ AtRest(FALSE, FALSE, FALSE, FALSE, TRUE, FALSE, FALSE, FALSE, FALSE)
RouterSpec == RouterInit /\ [][NextRouter]_vars
HistInit == InitHist /\ AtRest(FALSE, FALSE, FALSE, FALSE, FALSE, TRUE, FALSE, FALSE, FALSE)
HistSpec == HistInit /\ [][NextHist]_vars

TTSWorkerInit == InitTTSWorker /\ AtRest(FALSE, FALSE, FALSE, FALSE, FALSE, FALSE, TRUE, FALSE, FALSE)
TTSWorkerSpec == TTSWorkerInit /\ [][NextTTSWorker]_vars
\* _process_loop runs again whenever a message is there or in hand.
TTSWorkerFairSpec ==
    /\ TTSWorkerSpec
    /\ WF_vars(TTSWorkerGetTasks /\ UNCHANGED notTTS)
    /\ WF_vars(TTSWorkerProcessTask /\ UNCHANGED notTTS)

BrokerInit == InitBroker /\ AtRest(FALSE, FALSE, FALSE, FALSE, FALSE, FALSE, FALSE, TRUE, FALSE)
BrokerSpec == BrokerInit /\ [][NextBroker]_vars

JobInit == InitJob /\ AtRest(FALSE, FALSE, FALSE, FALSE, FALSE, FALSE, FALSE, FALSE, TRUE)
JobSpec == JobInit /\ [][NextJob]_vars

\* The router's two workers and the pool's workers are asyncio tasks that run
\* again whenever they have something to do.
RouterFairSpec ==
    /\ RouterSpec
    /\ WF_vars(RouterProcessInputTask /\ UNCHANGED notRouter)
    /\ WF_vars(RouterPoolProcessTask /\ UNCHANGED notRouter)
    /\ WF_vars(RouterProcessGpuResult /\ UNCHANGED notRouter)

(***************************************************************************)
(* Properties                                                              *)
(***************************************************************************)
InLane(t, p) == \E i \in 1..Len(priority_queues[p]) : priority_queues[p][i] = t
Pending(t) == \E p \in TaskPriority : InLane(t, p)
Held(t) == \E w \in Workers : worker[w].pc # "idle" /\ worker[w].task = t
WasRead(t) == t <= read_count
\* The dispatcher made a WorkerTask of the message and put it into a lane.
Enqueued(t) == msg_kind[t] \in {"task", "no_data"}
\* Past its last step: enqueued, now in no lane and in no worker's hands.
Terminal(t) == Enqueued(t) /\ ~Pending(t) /\ ~Held(t)
Results(t) == out_stream[t].completed + out_stream[t].failed

\* C1: whenever a worker takes a task out of a lane, every lane of a higher
\* priority is empty at that moment, so a Normal or Low task is never
\* dequeued while a Critical or High one is waiting.
C1_HighestLaneFirst ==
    [][\A w \in Workers :
         (worker[w].pc = "idle" /\ worker'[w].pc = "synth") =>
             \A p \in TaskPriority :
                 p > task[worker'[w].task].priority => priority_queues[p] = <<>>]_vars

\* C1, its case: a Critical task is being executed while a Normal task that
\* was enqueued before it has not been dequeued yet.
C1_CriticalOvertookNormal ==
    \E w \in Workers, u \in Tasks :
        /\ worker[w].pc = "synth"
        /\ task[worker[w].task].priority = CRITICAL
        /\ u < worker[w].task
        /\ attempts[u] = 0
        /\ InLane(u, NORMAL)

\* C4: a task past its last step has exactly one result on the output stream
\* and exactly one acknowledgement, and no task ever has two of either.
C4_OneResultOneAck ==
    \A t \in Tasks :
        /\ Results(t) <= 1
        /\ acks[t] <= 1
        /\ Terminal(t) => (Results(t) = 1 /\ acks[t] = 1)

\* C5: a task none of whose attempts produced audio has been executed
\* max_retries + 1 times when its failure result is on the output stream.
C5_RetriedMaxRetriesTimes ==
    \A t \in Tasks :
        (out_stream[t].failed > 0 /\ ~synth_ok[t]) => attempts[t] = max_retries + 1

\* C6: every well-formed message the dispatcher has read eventually has its result on the
\* output stream and its acknowledgement.
C6_EveryTaskReachesItsResult ==
    \A t \in Tasks :
        (WasRead(t) /\ msg_kind[t] = "task") ~> (Results(t) >= 1 /\ acks[t] >= 1)

PermitHolders == {w \in PoolWorkers : gpu_worker[w].pc = "synth"}

\* C2: the tasks inside the semaphore-guarded section of _process_task are
\* never more than current_concurrent.
C2_PermitsWithinLimit == Cardinality(PermitHolders) <= current_concurrent

\* C3: min_concurrent <= current_concurrent <= max_concurrent in every state
\* of the pool.
C3_ConcurrencyWithinBounds ==
    cfg.min_concurrent <= current_concurrent /\ current_concurrent <= cfg.max_concurrent

\* C7: a pool whose configuration GPUConfig.validate rejects never runs.
C7_InvalidConfigNeverRuns == pool_running => Validate(cfg)

\* C8: after a sample m taken at limit old, the limit is min if m >= critical;
\* else max(min, old - 1) if m >= high; else min(max, old + 1) if m <= low;
\* else old.
C8_AdaptRule ==
    LET m == last_gpu_metrics
        old == old_concurrent
        new == current_concurrent
    IN  m # None =>
          /\ m >= cfg.critical => new = cfg.min_concurrent
          /\ (m < cfg.critical /\ m >= cfg.high) =>
                 new = (IF old - 1 < cfg.min_concurrent THEN cfg.min_concurrent ELSE old - 1)
          /\ (m < cfg.critical /\ m < cfg.high /\ m <= cfg.low) =>
                 new = (IF old + 1 > cfg.max_concurrent THEN cfg.max_concurrent ELSE old + 1)
          /\ (m < cfg.critical /\ m < cfg.high /\ m > cfg.low) => new = old

\* C8, its case: a sample at the high threshold lowered the limit by one.
C8_HighSampleLowered ==
    /\ cfg = DefaultConfig
    /\ last_gpu_metrics = cfg.high
    /\ old_concurrent = 3
    /\ current_concurrent = 2

\* C9 as stated: once the five samples of the scenario have been fed, the
\* limit is 3, the last value of the sequence 2 -> 1 -> 1 -> 2 -> 3.
C9_SequenceEndsAtThree == scenario_pos = Len(Scenario) => current_concurrent = 3

\* C9 as amended: with the default configuration the limit before the first
\* sample and after each of the five samples is 2, 1, 1, 2, 3, 4.
C9_ScenarioSequence ==
    scenario_pos # Deviated =>
        current_concurrent = <<2, 1, 1, 2, 3, 4>>[scenario_pos + 1]

\* C9, its case: the whole scenario has been fed.
C9_ScenarioFed == scenario_pos = Len(Scenario) /\ cfg = DefaultConfig

\* The largest penalty among the tiers x is strictly above.
TierPenalty(x, tiers) ==
    LET hit == {tiers[i][2] : i \in {j \in DOMAIN tiers : x > tiers[j][1]}}
    IN  IF hit = {} THEN 0 ELSE CHOOSE p \in hit : \A q \in hit : q <= p

\* C10: the score is 100 minus the memory, temperature, error-rate and
\* latency penalties (each the highest tier exceeded, temperature skipped when
\* absent), plus 5 for a utilization within [30, 80], clamped to [0, 100].
C10_HealthScore ==
    hs_score # None =>
        LET i == hs_in
            raw == 100
                   - TierPenalty(i.memory_usage, <<<<90, 40>>, <<80, 20>>, <<70, 10>>>>)
                   - (IF i.temperature = None THEN 0
                      ELSE TierPenalty(i.temperature, <<<<85, 30>>, <<80, 15>>, <<75, 5>>>>))
                   - TierPenalty(i.error_rate, <<<<100, 25>>, <<50, 10>>, <<10, 5>>>>)
                   - TierPenalty(i.avg_processing_time, <<<<60, 15>>, <<30, 5>>>>)
                   + (IF i.gpu_utilization >= 30 /\ i.gpu_utilization <= 80 THEN 5 ELSE 0)
        IN  /\ hs_score = (IF raw < 0 THEN 0 ELSE IF raw > 100 THEN 100 ELSE raw)
            /\ 0 <= hs_score /\ hs_score <= 100

\* C10, its case: every penalty at its maximum, the sum clamped at 0.
C10_ScoreClampedAtZero ==
    /\ hs_score = 0
    /\ hs_in.memory_usage > 90
    /\ hs_in.temperature > 85
    /\ hs_in.error_rate > 100
    /\ hs_in.avg_processing_time > 60

\* The memory band of the score: 0 up to 70%, 1 above 70%, 2 above 80%, 3
\* above 90%.
MemoryBand(m) == IF m > 90 THEN 3 ELSE IF m > 80 THEN 2 ELSE IF m > 70 THEN 1 ELSE 0

\* C11: with the other four inputs as they are, the score of any memory usage
\* in a higher band than the sample's is strictly below the sample's score.
C11_HigherMemoryBandLowersScore ==
    hs_score # None =>
        \A m \in MemoryUsages :
            MemoryBand(m) > MemoryBand(hs_in.memory_usage) =>
                CalculateHealthScore(m, hs_in.gpu_utilization, hs_in.temperature,
                    hs_in.error_rate, hs_in.avg_processing_time) < hs_score

\* C11, its case: a sample in the lowest band whose score the clamp cut from
\* 105 to 100.
C11_ScoreClampedAtTop ==
    /\ hs_score = 100
    /\ MemoryBand(hs_in.memory_usage) = 0
    /\ hs_in.gpu_utilization >= 30 /\ hs_in.gpu_utilization <= 80
    /\ hs_in.temperature = None
    /\ hs_in.error_rate <= 10
    /\ hs_in.avg_processing_time <= 30

\* A payload that cannot be parsed into a task: no 'data' field, or one that
\* does not parse.
Malformed(t) == msg_kind[t] \in {"no_data", "bad_json"}

\* C12: a malformed message the dispatcher has read is acknowledged and is in
\* no lane, in no worker's hands, and has never been executed.
C12_MalformedAckedAndDropped ==
    \A t \in Tasks :
        Malformed(t) => (acks[t] >= 1 /\ ~Pending(t) /\ ~Held(t) /\ attempts[t] = 0)

C14_CacheEntryEventuallyRemoved ==
    \A t \in RouterTasks : (t \in task_cache) ~> (t \notin task_cache)

\* C15: once the pool has finished a task the router forwarded, the router
\* eventually has one result for it on the output stream and has acknowledged
\* its input message.
C15_PoolResultReachesOutput ==
    \A t \in RouterTasks :
        (pool_done[t] # "no") ~> (router_out[t] = 1 /\ router_acks[t] = 1)

\* The last n elements of a sequence.
LastN(seq, n) == SubSeq(seq, Len(seq) - n + 1, Len(seq))

\* C16: health_history never holds more than health_history_size samples, and
\* it is the most recent samples given to it, in arrival order.
C16_HistoryIsMostRecent ==
    /\ Len(health_history) <= health_history_size
    /\ health_history = LastN(arrivals, Min(health_history_size, Len(arrivals)))

\* C16, its case: more samples have arrived than the capacity holds, so the
\* oldest ones were evicted.
C16_HistoryEvicted ==
    /\ Len(arrivals) > health_history_size + 1
    /\ Len(health_history) = health_history_size
    /\ arrivals[1] # arrivals[Len(arrivals)]

\* C17: when the dispatcher's read of the input stream raised, what the poll
\* step hands to the loop is not the empty list of 'no new messages', and the
\* loop sleeps before it reads again.
C17_ReadFailureSurfaced ==
    poll.read = "raised" => (poll.returned # "empty_list" /\ poll.slept > 0)

\* How many times task t sits in the lanes, and how many workers hold it.
Occurrences(t) ==
    Cardinality(UNION {{<<p, i>> : i \in {j \in DOMAIN priority_queues[p] :
                                            priority_queues[p][j] = t}} :
                       p \in TaskPriority})
Holders(t) == Cardinality({w \in Workers : worker[w].pc # "idle" /\ worker[w].task = t})

\* C18: a task is in at most one place: once in one lane, or in the hands of
\* one worker (executing or waiting to be retried), or in neither (terminal);
\* and only tasks the dispatcher enqueued are anywhere.
C18_TaskInOneState ==
    \A t \in Tasks :
        /\ Occurrences(t) + Holders(t) <= 1
        /\ Occurrences(t) + Holders(t) = 1 => Enqueued(t)

\* C18, its case: one task is held for its retry while the other one, taken
\* from the same lane, is being executed.
C18_RetryPendingBesideExecuting ==
    \E w, v \in Workers :
        /\ worker[w].pc = "retry_sleep"
        /\ worker[v].pc = "synth"
        /\ task[worker[w].task].priority = task[worker[v].task].priority

IsPrefix(a, b) == Len(a) <= Len(b) /\ SubSeq(b, 1, Len(a)) = a

\* C19: in every step a lane either stays as it is, or grows at its tail only,
\* or loses its oldest task to the worker that dequeues it: the task that
\* leaves a lane is always the one enqueued (or re-enqueued) first.
C19_LaneIsFifo ==
    [][\A p \in TaskPriority :
         LET lane == priority_queues[p]
         IN  \/ IsPrefix(lane, priority_queues'[p])
             \/ /\ lane # <<>>
                /\ priority_queues'[p] = Tail(lane)
                /\ \E w \in Workers :
                     /\ worker[w].pc = "idle"
                     /\ worker'[w] = [pc |-> "synth", task |-> Head(lane)]]_vars

\* C19, its case: a retried task was re-enqueued behind a task that was
\* waiting in the same lane.
C19_RetriedBehindWaiting ==
    \E p \in TaskPriority :
        /\ Len(priority_queues[p]) >= 2
        /\ task[priority_queues[p][Len(priority_queues[p])]].retry_count > 0
        /\ task[Head(priority_queues[p])].retry_count = 0

\* C20: the pool has never acknowledged more request messages than it has
\* published results: every acknowledgement follows the result of its task.
C20_AckOnlyAfterResult == gpu_stream.acked <= gpu_stream.results

\* C21: while retries remain, the retry handler changes only the task's
\* retry_count (when the attempt fails) and its lane membership (after the
\* sleep, the task goes to the tail of the lane of its unchanged priority):
\* no acknowledgement, no result, no further read of the message.
C21_RetryFrame ==
    [][\A w \in Workers :
         LET t == worker[w].task IN
         /\ (worker[w].pc = "synth" /\ worker'[w].pc = "retry_sleep") =>
                /\ task' = [task EXCEPT ![t].retry_count = @ + 1]
                /\ task'[t].retry_count < max_retries
                /\ UNCHANGED <<priority_queues, acks, out_stream, read_count, msg_kind>>
         /\ (worker[w].pc = "retry_sleep" /\ worker'[w].pc = "idle") =>
                /\ priority_queues' =
                       [priority_queues EXCEPT ![task[t].priority] = Append(@, t)]
                /\ UNCHANGED <<task, acks, out_stream, read_count, msg_kind>>]_vars

\* C21, its case: a HIGH task is back in the HIGH lane after its second failed
\* attempt, unacknowledged and without a result.
C21_RetriedTwiceInItsLane ==
    \E t \in Tasks :
        /\ task[t].retry_count = 2
        /\ task[t].priority = HIGH
        /\ InLane(t, HIGH)
        /\ acks[t] = 0
        /\ Results(t) = 0

\* C22: between two iterations of the controller (the resize step of the last
\* one has returned), no task holds a permit of a gate that has been replaced:
\* every permit in use was taken from the current gate.
C22_ResizeWaitsForOldPermits ==
    \A w \in PoolWorkers : gpu_worker[w].pc = "synth" => gpu_worker[w].gate = semaphore

\* C23: when an attempt of a CPU-routed task ends and the engine has produced
\* no audio for the task, the attempt is a failure: nothing is counted as
\* completed and no 'completed' result appears, and either the task goes to
\* its retry with the message unacknowledged, or the failure result is
\* published and counted.
C23_CpuFailureIsFailure ==
    [][\A w \in Workers :
         LET t == worker[w].task IN
         (/\ worker[w].pc = "synth"
          /\ worker'[w].pc # "synth"
          /\ ~(task[t].use_gpu /\ gpu_available)
          /\ ~synth_ok'[t]) =>
             /\ global_stats'.completed_tasks = global_stats.completed_tasks
             /\ out_stream'[t].completed = out_stream[t].completed
             /\ \/ worker'[w].pc = "retry_sleep" /\ acks'[t] = acks[t]
                \/ /\ out_stream'[t].failed = out_stream[t].failed + 1
                   /\ global_stats'.failed_tasks = global_stats.failed_tasks + 1]_vars

\* C24: the result stream of the pool holds exactly one result message for
\* each request message the pool has acknowledged after its synthesis, the
\* failed ones included.
C24_OneResultPerAcknowledged ==
    /\ gpu_stream.acked = gpu_stats.completed_tasks + gpu_stats.failed_tasks
    /\ gpu_stream.results = gpu_stream.acked

C26_OneConsumerPerMessage ==
    \A m \in InputMessages :
        /\ Cardinality(readers[InputKey(AWMDefaults, m)]) <= 1
        /\ output_results[OutputKey(AWMDefaults, m)] <= 1

C28_ConcurrencyWithinStartedWorkers ==
    Cardinality(PermitHolders) <= cfg.initial_concurrent

\* C28, its case: the limit was raised above initial_concurrent, a message is
\* waiting and the current gate has a free permit, but every worker loop is
\* busy.
C28_RaisedLimitAdmitsNoMore ==
    /\ pool_running
    /\ current_concurrent > cfg.initial_concurrent
    /\ Cardinality(PermitHolders) = cfg.initial_concurrent
    /\ gpu_stream.unread > 0
    /\ gates[semaphore] > 0

\* C29: at most one job of a task is waiting or running in the pool at any
\* time: a job whose wait timed out is not executed or completed later,
\* beside the job of a retry.
C29_OneAttemptAtATime ==
    Cardinality({j \in JobIds : Unfinished(j)}) <= 1

\* C30: the pool's failed_tasks plus completed_tasks never exceed its
\* total_tasks, and the error rate failed_tasks / total_tasks the monitor
\* computes from them is at most 1, however tasks reach the request stream.
C30_StatsWithinTotal ==
    /\ PoolStats.failed_tasks + PoolStats.completed_tasks <= PoolStats.total_tasks
    /\ PoolStats.total_tasks > 0 => PoolStats.failed_tasks <= PoolStats.total_tasks

====
